---------------------------- MODULE Spec2Model ----------------------------
(***************************************************************************)
(* A model of protoshark: the VarInt codec (src/src/varint.rs), the        *)
(* schema-less decoder (src/src/lib.rs) and the byte-buffer encoder        *)
(* (src/src/bytes.rs).                                                     *)
(*                                                                         *)
(* Numbers.  An i32 is a TLA+ integer in -2^31 .. 2^31-1; every operation  *)
(* on it is written so that no intermediate leaves that range.  An i64 is  *)
(* a vector of 64 bits, least significant first (index 1 is bit 0), in     *)
(* two's complement.  A u8 is an integer in 0 .. 255.                      *)
(***************************************************************************)
EXTENDS Integers, Sequences, FiniteSets, TLC

VARIABLES
    \* ---- the codec run: one value through encode / decode / serialize
    cpc,            \* position: "idle", "input", "encoded", "decoded", "converted", "serialized"
    kind,           \* what the input is: "i32", "i64" or "wire" (bytes received)
    value32,        \* the i32 input
    value64,        \* the i64 input
    bytes,          \* the encoded bytes (Vec<u8>)
    varint,         \* the VarInt: its Vec<u8> of groups
    rendered,       \* what Serialize for VarInt emitted
    \* ---- the encoder / decoder run
    buf,            \* the Vec<u8> being written, then the input of decode
    calls,          \* the calls made on buf, in order
    status,         \* "idle", "build", "run", "ok", "err", "panic"
    index,          \* decode: index
    message,        \* decode: message, a BTreeMap as its entries in key order
    err,            \* decode: the error returned (or the panic raised)
    data,           \* decode: the result of the recursive decode of the last payload
    string          \* decode: whether the last payload is valid UTF-8

codecVars == <<cpc, kind, value32, value64, bytes, varint, rendered>>
wireVars  == <<buf, calls, status, index, message, err, data, string>>
vars      == <<cpc, kind, value32, value64, bytes, varint, rendered,
               buf, calls, status, index, message, err, data, string>>

---------------------------------------------------------------------------
(* Sequences and integers *)

Reverse(s) == [i \in 1..Len(s) |-> s[Len(s) + 1 - i]]

Min(S) == CHOOSE m \in S : \A n \in S : m <= n

I32Max == 2147483647
I32Min == -I32Max - 1

\* Bit i (0..31) of an i32 in two's complement.
Bit32(x, i) == IF i = 31 THEN (IF x < 0 THEN 1 ELSE 0) ELSE (x \div 2^i) % 2

\* (x << 7) in i32: the low 25 bits move up, the rest is shifted out.
Shl7_32(x) ==
    LET u == x % 2^25
    IN  (IF u >= 2^24 THEN u - 2^25 ELSE u) * 128

\* (x | b) in i32, where the low 7 bits of x are 0 and b is a u8 widened to i32.
Or32(x, b) ==
    LET x7 == (x \div 128) % 2
        b7 == (b \div 128) % 2
    IN  x - 128 * x7 + 128 * (IF x7 = 1 \/ b7 = 1 THEN 1 ELSE 0) + (b % 128)

\* i64 as 64 bits.
Zero64 == [i \in 1..64 |-> 0]

\* x as i64, x an i32 (sign extension).
SignExtend(x) == [i \in 1..64 |-> IF i <= 32 THEN Bit32(x, i - 1)
                                  ELSE (IF x < 0 THEN 1 ELSE 0)]

\* b as i64, b a u8 (zero extension).
WidenU8(b) == [i \in 1..64 |-> IF i <= 8 THEN (b \div 2^(i - 1)) % 2 ELSE 0]

\* x as u64 / as i64, x a u32 held as a non-negative integer below 2^31.
WidenU32(x) == [i \in 1..64 |-> IF i <= 31 THEN (x \div 2^(i - 1)) % 2 ELSE 0]

Shl64(v, n) == [i \in 1..64 |-> IF i <= n THEN 0 ELSE v[i - n]]

\* v >> n on i64: arithmetic, the sign bit fills.
Sar64(v, n) == [i \in 1..64 |-> IF i + n <= 64 THEN v[i + n] ELSE v[64]]

Or64(a, b) == [i \in 1..64 |-> IF a[i] = 1 \/ b[i] = 1 THEN 1 ELSE 0]

\* v as u8, v an i64: the low 8 bits.
TruncU8(v) == v[1] + 2 * v[2] + 4 * v[3] + 8 * v[4]
              + 16 * v[5] + 32 * v[6] + 64 * v[7] + 128 * v[8]

IsNeg64(v) == v[64] = 1

---------------------------------------------------------------------------
(* VarInt: src/src/varint.rs (the same code stands in src/src/lib.rs) *)

\* Mutant of VarInt_decode: the groups are left in wire order.
VarInt_decode_unreversed(bs) == [i \in 1..Len(bs) |-> bs[i] % 128]

\* VarInt::decode: strip the continuation bit of every byte, then reverse.
VarInt_decode(bs) == Reverse([i \in 1..Len(bs) |-> bs[i] % 128])

\* Mutant of VarInt_encode: the fifth byte is not masked.
VarInt_encode_unmasked(value) ==
    [i \in 1..5 |->
        LET byte == (value \div 2^(7 * (i - 1))) % 256
        IN  IF i = 5 THEN byte ELSE (byte % 128) + 128]

\* VarInt::encode: five groups, continuation bit on the first four, the
\* fifth masked to 5 bits.
VarInt_encode(value) ==
    [i \in 1..5 |->
        LET byte == (value \div 2^(7 * (i - 1))) % 256
        IN  IF i = 5 THEN byte % 32 ELSE (byte % 128) + 128]

\* Mutant of encode_long: the loop of encode, five groups.
encode_long_five_groups(value) ==
    [i \in 1..5 |->
        LET byte == TruncU8(Sar64(value, 7 * (i - 1)))
        IN  IF i = 5 THEN byte % 32 ELSE (byte % 128) + 128]

\* VarInt::encode_long: ten groups, the tenth masked to 5 bits.
encode_long(value) ==
    [i \in 1..10 |->
        LET byte == TruncU8(Sar64(value, 7 * (i - 1)))
        IN  IF i = 10 THEN byte % 32 ELSE (byte % 128) + 128]

\* VarInt::raw_at: the bytes from index (0-based) through the first byte
\* whose high bit is clear, or through the end of the buffer if none is.
raw_at(bs, idx) ==
    LET stop == {i \in (idx + 1)..Len(bs) : bs[i] \div 128 = 0}
    IN  IF stop = {} THEN SubSeq(bs, idx + 1, Len(bs))
        ELSE SubSeq(bs, idx + 1, Min(stop))

\* VarInt::decode_at: the VarInt at index and the bytes it took.
decode_at(bs, idx) ==
    LET raw == raw_at(bs, idx)
    IN  <<VarInt_decode(raw), Len(raw)>>

\* VarInt::as_i32: fold the groups, value = (value << 7) | byte, in i32.
RECURSIVE Fold32(_, _)
Fold32(groups, value) ==
    IF groups = <<>> THEN value
    ELSE Fold32(Tail(groups), Or32(Shl7_32(value), Head(groups)))

as_i32(groups) == Fold32(groups, 0)

\* VarInt::as_i64: the same fold in i64.
RECURSIVE Fold64(_, _)
Fold64(groups, value) ==
    IF groups = <<>> THEN value
    ELSE Fold64(Tail(groups), Or64(Shl64(value, 7), WidenU8(Head(groups))))

as_i64(groups) == Fold64(groups, Zero64)

\* Mutant of as_u32: the value is given also when it is negative.
as_u32_of_negative(groups) == <<as_i32(groups)>>

\* VarInt::as_u32 / as_u64: None (<<>>) when the signed value is negative,
\* else Some (<<value>>).
as_u32(groups) ==
    LET value == as_i32(groups)
    IN  IF value < 0 THEN <<>> ELSE <<value>>

as_u64(groups) ==
    LET value == as_i64(groups)
    IN  IF IsNeg64(value) THEN <<>> ELSE <<value>>

\* Mutant of serialize: the i64 candidate is computed whatever the number
\* of groups.
serialize_any_length(groups) ==
    LET i32  == as_i32(groups)
        i64  == IF as_i64(groups) # SignExtend(i32)
                THEN <<as_i64(groups)>> ELSE <<>>
        u32o == as_u32(groups)
        keep == u32o # <<>> /\ (i32 < 0 \/ i32 # u32o[1])
        u32  == IF keep THEN u32o ELSE <<>>
        u64o == as_u64(groups)
        u64  == IF keep /\ Len(groups) >= 8 /\ u64o # <<>>
                   /\ u64o[1] # WidenU32(u32o[1])
                THEN u64o ELSE <<>>
    IN  IF i64 = <<>> /\ u32 = <<>> /\ u64 = <<>>
        THEN [form |-> "i32", elems |-> <<[ty |-> "i32", val |-> <<i32>>]>>]
        ELSE [form |-> "seq",
              elems |-> <<[ty |-> "i32", val |-> <<i32>>]>>
                        \o (IF i64 # <<>> THEN <<[ty |-> "i64", val |-> i64]>> ELSE <<>>)
                        \o (IF u32 # <<>> THEN <<[ty |-> "u32", val |-> u32]>> ELSE <<>>)
                        \o (IF u64 # <<>> THEN <<[ty |-> "u64", val |-> u64]>> ELSE <<>>)]

\* impl Serialize for VarInt: the bare i32, or the sequence of the i32 and
\* the candidates that were kept.  Each element carries its type.
serialize(groups) ==
    LET i32  == as_i32(groups)
        i64  == IF Len(groups) >= 8 /\ as_i64(groups) # SignExtend(i32)
                THEN <<as_i64(groups)>> ELSE <<>>
        u32o == as_u32(groups)
        \* inside `if let Some(u32_val)`: i32 >= 0, so i32 as u32 is i32
        keep == u32o # <<>> /\ (i32 < 0 \/ i32 # u32o[1])
        u32  == IF keep THEN u32o ELSE <<>>
        u64o == as_u64(groups)
        u64  == IF keep /\ Len(groups) >= 8 /\ u64o # <<>>
                   /\ u64o[1] # WidenU32(u32o[1])
                THEN u64o ELSE <<>>
    IN  IF i64 = <<>> /\ u32 = <<>> /\ u64 = <<>>
        THEN [form |-> "i32", elems |-> <<[ty |-> "i32", val |-> <<i32>>]>>]
        ELSE [form |-> "seq",
              elems |-> <<[ty |-> "i32", val |-> <<i32>>]>>
                        \o (IF i64 # <<>> THEN <<[ty |-> "i64", val |-> i64]>> ELSE <<>>)
                        \o (IF u32 # <<>> THEN <<[ty |-> "u32", val |-> u32]>> ELSE <<>>)
                        \o (IF u64 # <<>> THEN <<[ty |-> "u64", val |-> u64]>> ELSE <<>>)]

---------------------------------------------------------------------------
(* The decoder: src/src/lib.rs *)

\* A Value: its variant and what the variant holds.
\*   VarInt  - the groups of the VarInt
\*   Float   - the f32, as the 4 bytes of its bit pattern, most significant first
\*   Double  - the f64, as the 8 bytes of its bit pattern, most significant first
\*   String  - the bytes of the string
\*   Bytes   - the bytes
\*   Message - the entries of the nested SerializedMessage
Value(variant, payload) == [variant |-> variant, payload |-> payload]

\* impl From<bool> for Value: Value::VarInt(if value { 1 } else { 0 }.into()),
\* where into() is From<i32> for VarInt, VarInt(VarInt::encode(value)).
Value_from_bool(value) == Value("VarInt", VarInt_encode(IF value THEN 1 ELSE 0))

\* Value::as_bool: Some(false) / Some(true) for a VarInt whose as_i32 is
\* 0 / 1, None (<<>>) for the rest.
Value_as_bool(v) ==
    IF v.variant = "VarInt"
    THEN LET i == as_i32(v.payload)
         IN  IF i = 0 THEN <<FALSE>> ELSE IF i = 1 THEN <<TRUE>> ELSE <<>>
    ELSE <<>>

\* f32::from_le_bytes / f64::from_le_bytes, and to_le_bytes: the bit pattern
\* is little-endian in the buffer.
from_le_bytes(bs) == Reverse(bs)
to_le_bytes(pattern) == Reverse(pattern)

\* Mutant of insert: an existing key keeps its value.
insert_if_absent(m, key, value) ==
    IF \E i \in 1..Len(m) : m[i].key = key THEN m
    ELSE LET n == Cardinality({i \in 1..Len(m) : m[i].key < key})
         IN  SubSeq(m, 1, n) \o <<[key |-> key, value |-> value]>>
             \o SubSeq(m, n + 1, Len(m))

\* BTreeMap::insert on a SerializedMessage, held as its entries in ascending
\* key order: the value of an existing key is replaced, a new key takes its
\* place in the order.
insert(m, key, value) ==
    IF \E i \in 1..Len(m) : m[i].key = key
    THEN [i \in 1..Len(m) |-> IF m[i].key = key
                              THEN [key |-> key, value |-> value] ELSE m[i]]
    ELSE LET n == Cardinality({i \in 1..Len(m) : m[i].key < key})
         IN  SubSeq(m, 1, n) \o <<[key |-> key, value |-> value]>>
             \o SubSeq(m, n + 1, Len(m))

Keys(m) == {m[i].key : i \in 1..Len(m)}

Get(m, key) == m[CHOOSE i \in 1..Len(m) : m[i].key = key].value

\* std::str::from_utf8(bytes).is_ok()
RECURSIVE from_utf8(_)
from_utf8(bs) ==
    IF bs = <<>> THEN TRUE
    ELSE LET b == bs[1]
             n == Len(bs)
             Cont(i) == i <= n /\ bs[i] \in 128..191
         IN  IF b < 128 THEN from_utf8(Tail(bs))
             ELSE IF b \in 194..223
                  THEN Cont(2) /\ from_utf8(SubSeq(bs, 3, n))
             ELSE IF b \in 224..239
                  THEN /\ Cont(2) /\ Cont(3)
                       /\ (b = 224 => bs[2] >= 160)
                       /\ (b = 237 => bs[2] <= 159)
                       /\ from_utf8(SubSeq(bs, 4, n))
             ELSE IF b \in 240..244
                  THEN /\ Cont(2) /\ Cont(3) /\ Cont(4)
                       /\ (b = 240 => bs[2] >= 144)
                       /\ (b = 244 => bs[2] <= 143)
                       /\ from_utf8(SubSeq(bs, 5, n))
             ELSE FALSE

ErrInvalidWireType == "Invalid wire type specified"
ErrFixed64         == "Invalid message; not enough bytes for a fixed64 field."
ErrLengthDelimited == "Invalid message; not enough bytes for a length-delimited field."
ErrStartGroup      == "Start group wire type is not supported."
ErrEndGroup        == "End group wire type is not supported."
ErrFixed32         == "Invalid message; not enough bytes for a fixed32 field."

\* What a panic reports: the build decides (overflow checks on or off).
PanicAddOverflow == "panic: attempt to add with overflow"
PanicSliceOrder  == "panic: slice index starts after its end"

\* Mutant of WireType_try_from: the group wire types are not wire types.
WireType_try_from_no_groups(value) == IF value \in {0, 1, 2, 5} THEN <<value>> ELSE <<>>

\* WireType::try_from(u8): Ok(<<code>>) for the six wire types, Err (<<>>)
\* for the rest.
WireType_try_from(value) == IF value \in 0..5 THEN <<value>> ELSE <<>>

\* Mutant of Header_decode: the field number is taken as int >> 2.
Header_decode_shift_two(raw) ==
    LET int == as_i32(VarInt_decode(raw))
        wt  == WireType_try_from((int % 256) % 8)
    IN  IF wt = <<>> THEN [ok |-> FALSE, field_number |-> 0, wire_type |-> 0]
        ELSE [ok |-> TRUE, field_number |-> int \div 4, wire_type |-> wt[1]]

\* Header::decode: the i32 of the varint, field_number = int >> 3,
\* wire_type from 0b111 & (int as u8).
Header_decode(raw) ==
    LET int == as_i32(VarInt_decode(raw))
        wt  == WireType_try_from((int % 256) % 8)
    IN  IF wt = <<>> THEN [ok |-> FALSE, field_number |-> 0, wire_type |-> 0]
        ELSE [ok |-> TRUE, field_number |-> int \div 8, wire_type |-> wt[1]]

NoData == [returned |-> FALSE, ok |-> FALSE, err |-> "", message |-> <<>>]

\* The locals of decode at the head of its loop.
DecodeEntry == [status |-> "run", index |-> 0, message |-> <<>>, err |-> "",
                data |-> NoData, string |-> FALSE]

Fail(st, idx, e) == [st EXCEPT !.status = "err", !.index = idx, !.err = e]

Panic(st, idx) == [st EXCEPT !.status = "panic", !.index = idx]

Stored(st, idx, key, value) ==
    [st EXCEPT !.index = idx, !.message = insert(st.message, key, value)]


\* The LengthDelimited branch, from the index i1 behind the header.
\* data_len.as_i32() as usize is len for len >= 0 and 2^64 + len for len < 0.
\* With len < 0, index + (len as usize) overflows usize iff index + len >= 0:
\* a build with overflow checks panics at the addition; one without wraps to
\* index + len, passes the bounds check and panics at the slice
\* bytes[index..index + len], whose end lies before its start.
DecodeLengthDelimited(bs, st, field_number, i1, sub_decode) ==
    LET dl  == decode_at(bs, i1)
        i2  == i1 + dl[2]
        len == as_i32(dl[1])
    IN  IF len < 0
        THEN IF i2 + len >= 0 THEN Panic(st, i2)
             ELSE Fail(st, i2, ErrLengthDelimited)
        ELSE IF Len(bs) < i2 \/ Len(bs) - i2 < len
        THEN Fail(st, i2, ErrLengthDelimited)
        ELSE LET payload == SubSeq(bs, i2 + 1, i2 + len)
                 i3      == i2 + len
                 sub     == sub_decode[payload]
                 str     == from_utf8(payload)
                 res     == [returned |-> TRUE, ok |-> sub.status = "ok",
                             err |-> sub.err,
                             message |-> IF sub.status = "ok" THEN sub.message ELSE <<>>]
                 st1     == [st EXCEPT !.data = res, !.string = str]
             IN  IF sub.status = "panic" THEN Panic(st, i3)
                 ELSE IF ~res.ok /\ ~str
                 THEN Stored(st1, i3, field_number, Value("Bytes", payload))
                 ELSE LET s1 == IF str
                                THEN Stored(st1, i3, field_number, Value("String", payload))
                                ELSE st1
                      IN  IF res.ok
                          THEN Stored(s1, i3, field_number, Value("Message", sub.message))
                          ELSE [s1 EXCEPT !.index = i3]

\* One turn of the loop of decode, entered with index < bytes.len().
DecodeIter(bs, st, sub_decode) ==
    LET raw    == raw_at(bs, st.index)
        header == Header_decode(raw)
        i1     == st.index + Len(raw)
        fnum   == header.field_number
    IN  IF ~header.ok THEN Fail(st, st.index, ErrInvalidWireType)
        ELSE CASE header.wire_type = 0 ->
                    LET vi == decode_at(bs, i1)
                    IN  Stored(st, i1 + vi[2], fnum, Value("VarInt", vi[1]))
               [] header.wire_type = 1 ->
                    IF Len(bs) < i1 \/ Len(bs) < i1 + 8
                    THEN Fail(st, i1, ErrFixed64)
                    ELSE Stored(st, i1 + 8, fnum,
                                Value("Double", from_le_bytes(SubSeq(bs, i1 + 1, i1 + 8))))
               [] header.wire_type = 2 -> DecodeLengthDelimited(bs, st, fnum, i1, sub_decode)
               [] header.wire_type = 3 -> Fail(st, i1, ErrStartGroup)
               [] header.wire_type = 4 -> Fail(st, i1, ErrEndGroup)
               [] header.wire_type = 5 ->
                    IF Len(bs) < i1 \/ Len(bs) < i1 + 4
                    THEN Fail(st, i1, ErrFixed32)
                    ELSE Stored(st, i1 + 4, fnum,
                                Value("Float", from_le_bytes(SubSeq(bs, i1 + 1, i1 + 4))))

\* The loop of decode from the locals st: Ok(message) when index reaches
\* the end, the error or panic of the turn that raised one.
RECURSIVE DecodeLoop(_, _, _)
DecodeLoop(bs, st, sub_decode) ==
    IF st.status # "run" THEN st
    ELSE IF st.index < Len(bs) THEN DecodeLoop(bs, DecodeIter(bs, st, sub_decode), sub_decode)
    ELSE [st EXCEPT !.status = "ok"]

\* decode(bytes).  The recursive call on a payload reaches DecodeLoop as
\* sub_decode.
decode[bs \in Seq(0..255)] == DecodeLoop(bs, DecodeEntry, decode)

---------------------------------------------------------------------------
(* The encoder: src/src/bytes.rs *)

\* Header::new(field, t).to_bytes(): VarInt::encode of (field << 3) | code,
\* the u32 word taken as an i32.
Header_to_bytes(field, code) ==
    LET f == field % 2^29
    IN  VarInt_encode((IF f >= 2^28 THEN f - 2^29 ELSE f) * 8 + code)

\* write_i32: impl_encode!(i32), value.into_varint() is VarInt::encode(value)
write_i32(b, field, value) == b \o Header_to_bytes(field, 0) \o VarInt_encode(value)

\* write_i64: impl_encode!(i64), value.into_varint() is VarInt::encode_long(value)
write_i64(b, field, value) == b \o Header_to_bytes(field, 0) \o encode_long(value)

write_f32(b, field, value) == b \o Header_to_bytes(field, 5) \o to_le_bytes(value)

write_f64(b, field, value) == b \o Header_to_bytes(field, 1) \o to_le_bytes(value)

write_bytes(b, field, value) ==
    b \o Header_to_bytes(field, 2) \o VarInt_encode(Len(value)) \o value

---------------------------------------------------------------------------
(* The inputs of the codec run *)

MaxDelta  == 1      \* inputs lie within MaxDelta of a power of two
MaxGroups == 10     \* the longest varint received from the wire

\* i32 inputs: around every power of two and its negation, the two ends of
\* the range, and the values of tests::decode_all.
I32Inputs ==
    {x \in { 2^e + d : e \in 0..30, d \in -MaxDelta..MaxDelta } : x <= I32Max}
    \cup { -(2^e) + d : e \in 0..30, d \in -MaxDelta..MaxDelta }
    \cup { I32Max - d : d \in 0..MaxDelta }
    \cup { I32Min + d : d \in 0..MaxDelta }
    \cup { -33334, 656666, 1215752191, -1215752191 }

\* The i64 whose bits 32..63 are those of hi (an i32), bits 16..31 those of
\* mid and bits 0..15 those of lo.
I64FromParts(hi, mid, lo) ==
    [i \in 1..64 |-> IF i <= 16 THEN (lo \div 2^(i - 1)) % 2
                     ELSE IF i <= 32 THEN (mid \div 2^(i - 17)) % 2
                     ELSE Bit32(hi, i - 33)]

I64Min == [i \in 1..64 |-> IF i = 64 THEN 1 ELSE 0]

\* i64 inputs: 2^e, 2^e - 1, -(2^e), -(2^e) - 1 for every e, so 0, -1,
\* i64::MAX and i64::MIN are among them, and -99999999999 of decode_all.
I64Inputs ==
    { [i \in 1..64 |-> IF i = e THEN 1 ELSE 0] : e \in 1..64 }
    \cup { [i \in 1..64 |-> IF i < e THEN 1 ELSE 0] : e \in 1..64 }
    \cup { [i \in 1..64 |-> IF i >= e THEN 1 ELSE 0] : e \in 1..64 }
    \cup { [i \in 1..64 |-> IF i = e THEN 0 ELSE 1] : e \in 1..64 }
    \cup { I64FromParts(-24, 46985, 6145), SignExtend(-33334) }

\* A varint of n bytes as another encoder puts it on the wire: the low 7n
\* bits of v, seven per byte, continuation bit on all but the last.
WireVarint(v, n) ==
    [i \in 1..n |->
        LET g == TruncU8([k \in 1..64 |->
                     IF k <= 7 /\ 7 * (i - 1) + k <= 64 THEN v[7 * (i - 1) + k] ELSE 0])
        IN  IF i = n THEN g ELSE g + 128]

WireIdle ==
    /\ buf = <<>>
    /\ calls = <<>>
    /\ status = "idle"
    /\ index = 0
    /\ message = <<>>
    /\ err = ""
    /\ data = NoData
    /\ string = FALSE

CodecInit ==
    /\ WireIdle
    /\ varint = <<>>
    /\ rendered = [form |-> "none", elems |-> <<>>]
    /\ kind \in {"i32", "i64", "wire", "bool"}
    /\ value32 \in (IF kind = "i32" THEN I32Inputs
                    ELSE IF kind = "bool" THEN {0, 1} ELSE {0})
    /\ value64 \in (IF kind \in {"i32", "bool"} THEN {Zero64} ELSE I64Inputs)
    /\ bytes \in (IF kind = "wire"
                  THEN {WireVarint(value64, n) : n \in 1..MaxGroups}
                  ELSE {<<>>})
    /\ cpc = IF kind = "wire" THEN "encoded" ELSE "input"

\* VarInt::encode(value)
Encode ==
    /\ cpc = "input" /\ kind = "i32"
    /\ bytes' = VarInt_encode(value32)
    /\ cpc' = "encoded"
    /\ UNCHANGED <<kind, value32, value64, varint, rendered>>
    /\ UNCHANGED wireVars

\* VarInt::encode_long(value)
EncodeLong ==
    /\ cpc = "input" /\ kind = "i64"
    /\ bytes' = encode_long(value64)
    /\ cpc' = "encoded"
    /\ UNCHANGED <<kind, value32, value64, varint, rendered>>
    /\ UNCHANGED wireVars

\* VarInt::decode(&bytes)
Decode ==
    /\ cpc = "encoded"
    /\ varint' = VarInt_decode(bytes)
    /\ cpc' = "decoded"
    /\ UNCHANGED <<kind, value32, value64, bytes, rendered>>
    /\ UNCHANGED wireVars

\* impl From<i32> for VarInt: VarInt(VarInt::encode(value))
FromI32 ==
    /\ cpc = "input" /\ kind = "i32"
    /\ varint' = VarInt_encode(value32)
    /\ cpc' = "converted"
    /\ UNCHANGED <<kind, value32, value64, bytes, rendered>>
    /\ UNCHANGED wireVars

\* impl From<i64> for VarInt: VarInt(VarInt::encode_long(value))
FromI64 ==
    /\ cpc = "input" /\ kind = "i64"
    /\ varint' = encode_long(value64)
    /\ cpc' = "converted"
    /\ UNCHANGED <<kind, value32, value64, bytes, rendered>>
    /\ UNCHANGED wireVars

\* Value::from(value: bool), value being value32 = 1
FromBool ==
    /\ cpc = "input" /\ kind = "bool"
    /\ varint' = Value_from_bool(value32 = 1).payload
    /\ cpc' = "converted"
    /\ UNCHANGED <<kind, value32, value64, bytes, rendered>>
    /\ UNCHANGED wireVars

\* varint.serialize(serializer)
Serialize ==
    /\ cpc \in {"decoded", "converted"}
    /\ rendered' = serialize(varint)
    /\ cpc' = "serialized"
    /\ UNCHANGED <<kind, value32, value64, bytes, varint>>
    /\ UNCHANGED wireVars

CodecNext ==
    Encode \/ EncodeLong \/ Decode \/ FromI32 \/ FromI64 \/ FromBool \/ Serialize

CodecSpec == CodecInit /\ [][CodecNext]_vars

---------------------------------------------------------------------------
(* Claims on the codec *)

\* C1: for every i32 v, VarInt::decode(VarInt::encode(v)).as_i32() = v.
C1_RoundTrip32 ==
    (cpc = "decoded" /\ kind = "i32") => as_i32(varint) = value32

C1_Witness ==
    cpc = "decoded" /\ kind = "i32" /\ value32 = I32Min /\ as_i32(varint) = I32Min

\* C2: for every i64 v, VarInt::decode(VarInt::encode_long(v)).as_i64() = v.
C2_RoundTrip64 ==
    (cpc = "decoded" /\ kind = "i64") => as_i64(varint) = value64

C2_Witness ==
    cpc = "decoded" /\ kind = "i64" /\ value64 = I64Min /\ as_i64(varint) = I64Min

\* The candidates of the rendering, rule by rule.
SurvivesI64(g) == Len(g) >= 8 /\ as_i64(g) # SignExtend(as_i32(g))
SurvivesU32(g) == as_u32(g) # <<>> /\ as_i32(g) < 0
SurvivesU64(g) == /\ Len(g) >= 8
                  /\ SurvivesU32(g)
                  /\ as_u64(g) # <<>>
                  /\ as_u64(g)[1] # WidenU32(as_u32(g)[1])

Tags(r) == [i \in 1..Len(r.elems) |-> r.elems[i].ty]

ElemOf(r, ty) == r.elems[CHOOSE i \in 1..Len(r.elems) : r.elems[i].ty = ty].val

\* C10: the rendering of a VarInt is the bare i32 iff no i64, u32 or u64
\* candidate survives, where the i64 candidate survives iff there are at
\* least 8 groups and as_i64 differs from as_i32 sign-extended; otherwise it
\* is the list of the i32 and the surviving candidates, in the order i64,
\* u32, u64.
C10_Rendering ==
    cpc = "serialized" =>
        LET g    == varint
            none == ~SurvivesI64(g) /\ ~SurvivesU32(g) /\ ~SurvivesU64(g)
        IN  /\ rendered.form \in {"i32", "seq"}
            /\ rendered.form = "i32" <=> none
            /\ Tags(rendered) =
                  <<"i32">>
                  \o (IF SurvivesI64(g) THEN <<"i64">> ELSE <<>>)
                  \o (IF SurvivesU32(g) THEN <<"u32">> ELSE <<>>)
                  \o (IF SurvivesU64(g) THEN <<"u64">> ELSE <<>>)
            /\ ElemOf(rendered, "i32") = <<as_i32(g)>>
            /\ SurvivesI64(g) => ElemOf(rendered, "i64") = <<as_i64(g)>>
            /\ SurvivesU32(g) => ElemOf(rendered, "u32") = as_u32(g)
            /\ SurvivesU64(g) => ElemOf(rendered, "u64") = as_u64(g)

C10_Witness ==
    /\ cpc = "serialized"
    /\ Len(varint) >= 8
    /\ rendered.form = "seq"
    /\ Tags(rendered) = <<"i32", "i64">>
    /\ as_i32(varint) < 0

\* Bytes that stand before and behind an encoding in a buffer.
Neighbours == {<<>>, <<0>>, <<1>>, <<128>>, <<255>>, <<255, 1>>, <<8, 150, 1>>}

\* C11: VarInt::encode returns exactly 5 bytes and VarInt::encode_long
\* exactly 10; every byte but the last has its continuation bit set, the
\* last has it clear and is less than 32, so VarInt::raw_at at the start of
\* the encoding returns the whole encoding and nothing more, whatever
\* stands before and behind it.
C11_EncodingShape ==
    (cpc = "encoded" /\ kind \in {"i32", "i64"}) =>
        /\ Len(bytes) = (IF kind = "i32" THEN 5 ELSE 10)
        /\ \A i \in 1..(Len(bytes) - 1) : bytes[i] >= 128
        /\ bytes[Len(bytes)] < 32
        /\ \A before \in Neighbours : \A behind \in Neighbours :
              raw_at(before \o bytes \o behind, Len(before)) = bytes

C11_Witness ==
    /\ cpc = "encoded" /\ kind = "i32" /\ value32 = -1
    /\ bytes = <<255, 255, 255, 255, 31>>
    /\ raw_at(bytes \o <<255, 1>>, 0) = bytes

\* C13: every VarInt, built by VarInt::decode or by the From<i32> /
\* From<i64> conversions, holds only 7-bit groups (each less than 128),
\* most significant first, so that VarInt::from(v).as_i32() = v for every
\* i32 v and Value::from(b).as_bool() = Some(b) for every bool b.
C13_SevenBitGroups ==
    /\ cpc \in {"decoded", "converted"} =>
          \A i \in 1..Len(varint) : varint[i] < 128
    /\ cpc = "decoded" =>
          /\ Len(varint) = Len(bytes)
          /\ \A i \in 1..Len(varint) :
                varint[i] = bytes[Len(bytes) - i + 1] % 128
    /\ (cpc = "converted" /\ kind = "i32") => as_i32(varint) = value32
    /\ (cpc = "converted" /\ kind = "bool") =>
          Value_as_bool(Value("VarInt", varint)) = <<value32 = 1>>

\* C14: the rendering of a VarInt never holds an unsigned candidate: as_u32
\* is absent exactly when as_i32 is negative and otherwise equals as_i32, so
\* the u32 and u64 candidates never survive and the rendering is the bare
\* i32 or the two-element list of the i32 and the i64.
C14_NoUnsignedCandidate ==
    cpc = "serialized" =>
        /\ (as_u32(varint) = <<>>) <=> (as_i32(varint) < 0)
        /\ as_u32(varint) # <<>> => as_u32(varint) = <<as_i32(varint)>>
        /\ \A i \in 1..Len(rendered.elems) :
              rendered.elems[i].ty \notin {"u32", "u64"}
        /\ \/ rendered.form = "i32" /\ Tags(rendered) = <<"i32">>
           \/ rendered.form = "seq" /\ Tags(rendered) = <<"i32", "i64">>

C14_Witness ==
    /\ cpc = "serialized"
    /\ Len(varint) >= 8
    /\ as_u32(varint) # <<>>
    /\ as_u64(varint) # <<>>
    /\ as_u64(varint)[1] # WidenU32(as_u32(varint)[1])
    /\ Tags(rendered) = <<"i32", "i64">>

---------------------------------------------------------------------------
(* The encoder / decoder run: a buffer is written, then decoded *)

MaxOps == 2     \* calls made on the buffer before it is decoded
MaxCut == 9     \* bytes a truncation takes away

I32Fields == {0, 1, 268435455}
I32Values == {-33334, 1}
I64Values == {I64FromParts(-24, 46985, 6145)}
F32Values == {<<64, 72, 245, 195>>}                        \* 3.14
F64Values == {<<65, 46, 132, 127, 28, 113, 12, 179>>}      \* 999999.55555

\* Payloads of write_bytes: nothing, a string that is no message, a message
\* that is also a string, neither, a message that is no string, a message
\* that holds a message, a StartGroup header, and a length-delimited field
\* of declared length -1.
Payloads ==
    { <<>>, <<72, 105, 33>>, <<8, 1>>, <<255>>, write_i32(<<>>, 1, -33334),
      write_bytes(<<>>, 3, write_i32(<<>>, 1, 1)), <<11>>,
      <<10, 255, 255, 255, 255, 15>> }

\* Bytes that no write_ call produces: group headers, wire types 6 and 7, a
\* header word with bit 31 set, declared lengths -1, i32::MIN and 5, bare
\* fixed-width headers, and two fields in the shortest form (field 0, the
\* varint 1; field 1, the f32 1.0).
RawChunks ==
    { <<11>>, <<12, 8, 1>>, <<14>>, <<15>>, <<128, 128, 128, 128, 8>>,
      <<10, 255, 255, 255, 255, 15>>, <<10, 128, 128, 128, 128, 8>>,
      <<10, 5>>, <<13>>, <<9>>, <<0, 1, 13, 0, 0, 128, 63>> }

Call(op, field, value, len) == [op |-> op, field |-> field, value |-> value, len |-> len]

Init ==
    /\ cpc = "idle"
    /\ kind = "none"
    /\ value32 = 0
    /\ value64 = Zero64
    /\ bytes = <<>>
    /\ varint = <<>>
    /\ rendered = [form |-> "none", elems |-> <<>>]
    /\ buf = <<>>
    /\ calls = <<>>
    /\ status = "build"
    /\ index = 0
    /\ message = <<>>
    /\ err = ""
    /\ data = NoData
    /\ string = FALSE

Writable ==
    /\ status = "build"
    /\ Len(calls) < MaxOps
    /\ calls # <<>> => calls[Len(calls)].op # "truncate"

Written(b, op, field, value) ==
    /\ buf' = b
    /\ calls' = Append(calls, Call(op, field, value, Len(b) - Len(buf)))
    /\ UNCHANGED <<status, index, message, err, data, string>>
    /\ UNCHANGED codecVars

WriteI32 ==
    /\ Writable
    /\ \E field \in I32Fields, value \in I32Values :
          Written(write_i32(buf, field, value), "write_i32", field, value)

WriteI64 ==
    /\ Writable
    /\ \E value \in I64Values :
          Written(write_i64(buf, 1, value), "write_i64", 1, value)

WriteF32 ==
    /\ Writable
    /\ \E value \in F32Values :
          Written(write_f32(buf, 1, value), "write_f32", 1, value)

WriteF64 ==
    /\ Writable
    /\ \E value \in F64Values :
          Written(write_f64(buf, 2, value), "write_f64", 2, value)

WriteBytes ==
    /\ Writable
    /\ \E value \in Payloads :
          Written(write_bytes(buf, 2, value), "write_bytes", 2, value)

\* Vec::extend_from_slice with bytes of the caller's own
ExtendRaw ==
    /\ Writable
    /\ \E chunk \in RawChunks :
          Written(buf \o chunk, "raw", 0, chunk)

\* Vec::truncate: the last field written loses its last k bytes, k less
\* than the field's length.
Truncate ==
    /\ Writable
    /\ calls # <<>>
    /\ calls[Len(calls)].op \notin {"raw", "truncate"}
    /\ \E k \in 1..MaxCut :
          /\ k < calls[Len(calls)].len
          /\ Written(SubSeq(buf, 1, Len(buf) - k), "truncate", 0, k)

Locals == [status |-> status, index |-> index, message |-> message, err |-> err,
           data |-> data, string |-> string]

Becomes(st) ==
    /\ status' = st.status
    /\ index' = st.index
    /\ message' = st.message
    /\ err' \in (IF st.status = "panic" THEN {PanicAddOverflow, PanicSliceOrder}
                 ELSE {st.err})
    /\ data' = st.data
    /\ string' = st.string
    /\ UNCHANGED <<buf, calls>>
    /\ UNCHANGED codecVars

\* decode(&buf) is entered
DecodeStart ==
    /\ status = "build"
    /\ Becomes(DecodeEntry)

AtHeader == status = "run" /\ index < Len(buf)

HeaderHere == Header_decode(raw_at(buf, index))

\* Header::decode fails
IterInvalid ==
    /\ AtHeader /\ ~HeaderHere.ok
    /\ Becomes(DecodeIter(buf, Locals, decode))

IterVarInt ==
    /\ AtHeader /\ HeaderHere.ok /\ HeaderHere.wire_type = 0
    /\ Becomes(DecodeIter(buf, Locals, decode))

IterFixed64 ==
    /\ AtHeader /\ HeaderHere.ok /\ HeaderHere.wire_type = 1
    /\ Becomes(DecodeIter(buf, Locals, decode))

IterLengthDelimited ==
    /\ AtHeader /\ HeaderHere.ok /\ HeaderHere.wire_type = 2
    /\ Becomes(DecodeIter(buf, Locals, decode))

IterGroup ==
    /\ AtHeader /\ HeaderHere.ok /\ HeaderHere.wire_type \in {3, 4}
    /\ Becomes(DecodeIter(buf, Locals, decode))

IterFixed32 ==
    /\ AtHeader /\ HeaderHere.ok /\ HeaderHere.wire_type = 5
    /\ Becomes(DecodeIter(buf, Locals, decode))

\* the loop ends: Ok(message)
Return ==
    /\ status = "run" /\ ~(index < Len(buf))
    /\ Becomes(DecodeLoop(buf, Locals, decode))

Next ==
    \/ WriteI32 \/ WriteI64 \/ WriteF32 \/ WriteF64 \/ WriteBytes
    \/ ExtendRaw \/ Truncate
    \/ DecodeStart
    \/ IterInvalid \/ IterVarInt \/ IterFixed64 \/ IterLengthDelimited
    \/ IterGroup \/ IterFixed32
    \/ Return

Spec == Init /\ [][Next]_vars

---------------------------------------------------------------------------
(* Claims on the encoder and the decoder *)

Finished == status \in {"ok", "err", "panic"}

AllOps(ops) == \A i \in 1..Len(calls) : calls[i].op \in ops

\* The call is the last one made on its field number.
LastOnField(i) == \A j \in (i + 1)..Len(calls) : calls[j].field # calls[i].field

\* The i32 of the header varint at index.
WordHere == as_i32(VarInt_decode(raw_at(buf, index)))

GroupErrors == {ErrStartGroup, ErrEndGroup}

\* C3: after any sequence of write_i32(field, value) calls on an empty
\* buffer, field numbers in [0, 2^28), decode returns Ok with a mapping
\* whose keys are exactly the written field numbers, each holding a VarInt
\* whose as_i32 is the value of the last write for that field number.
C3_WriteI32ThenDecode ==
    ( /\ Finished
      /\ AllOps({"write_i32"})
      /\ \A i \in 1..Len(calls) : calls[i].field \in 0..(2^28 - 1) )
    => /\ status = "ok"
       /\ Keys(message) = {calls[i].field : i \in 1..Len(calls)}
       /\ \A i \in 1..Len(calls) :
             LastOnField(i) =>
                /\ Get(message, calls[i].field).variant = "VarInt"
                /\ as_i32(Get(message, calls[i].field).payload) = calls[i].value

C3_Witness ==
    /\ status = "ok"
    /\ AllOps({"write_i32"})
    /\ Len(calls) = 2
    /\ calls[1].field = calls[2].field
    /\ calls[1].value # calls[2].value
    /\ Len(message) = 1
    /\ as_i32(Get(message, calls[2].field).payload) = calls[2].value

\* The length-delimited field whose header stands at index: the index
\* behind its length varint, its declared length, and whether that many
\* bytes remain.
LdStart == LET i1 == index + Len(raw_at(buf, index))
           IN  i1 + decode_at(buf, i1)[2]
LdLen   == LET i1 == index + Len(raw_at(buf, index))
           IN  as_i32(decode_at(buf, i1)[1])
LdInBounds == LdLen >= 0 /\ LdLen <= Len(buf) - LdStart
LdPayload == SubSeq(buf, LdStart + 1, LdStart + LdLen)

AtLengthDelimited == AtHeader /\ HeaderHere.ok /\ HeaderHere.wire_type = 2

\* C4: for a length-delimited field whose payload is in bounds, decode
\* stores one value: Bytes if the payload is neither valid UTF-8 nor
\* decodable, String if only valid UTF-8, Message if decodable; and goes on
\* whatever the recursive decode did.
C4_Disambiguation ==
    [][ (AtLengthDelimited /\ LdInBounds) =>
            LET utf8 == from_utf8(LdPayload)
                sub  == decode[LdPayload].status = "ok"
                key  == HeaderHere.field_number
            IN  /\ status' = "run"
                /\ key \in Keys(message')
                /\ Get(message', key).variant =
                      (IF sub THEN "Message" ELSE IF utf8 THEN "String" ELSE "Bytes") ]_vars

\* The last call cut the field written before it in the middle of its
\* header varint (5 bytes), of its value varint, of its fixed-width payload
\* or of its length-delimited payload.
CutMidField ==
    /\ Len(calls) >= 2
    /\ calls[Len(calls)].op = "truncate"
    /\ \A i \in 1..(Len(calls) - 1) :
          calls[i].op \in {"write_i32", "write_i64", "write_f32", "write_f64", "write_bytes"}
    /\ LET w    == calls[Len(calls) - 1]
           left == w.len - calls[Len(calls)].value
       IN  \/ left \in 1..4
           \/ w.op # "write_bytes" /\ left \in 6..(w.len - 1)
           \/ w.op = "write_bytes" /\ left \in 11..(w.len - 1)

\* C5: decode of a valid buffer truncated in the middle of a field returns
\* an error.
C5_TruncationFails ==
    (Finished /\ CutMidField) => status = "err"

\* C6: a fixed-width or length-delimited payload is bounds-checked before
\* it is read: Err when fewer than 8 (Fixed64) or 4 (Fixed32) bytes remain,
\* or when the declared length, as an i32, is negative or exceeds the bytes
\* that remain; else the index advances by 8, 4 or the declared length.
C6_BoundsChecked ==
    [][ (AtHeader /\ HeaderHere.ok) =>
            LET i1 == index + Len(raw_at(buf, index))
                wt == HeaderHere.wire_type
            IN  /\ wt = 1 => IF Len(buf) - i1 < 8
                             THEN status' = "err" /\ err' = ErrFixed64
                             ELSE index' = i1 + 8
                /\ wt = 5 => IF Len(buf) - i1 < 4
                             THEN status' = "err" /\ err' = ErrFixed32
                             ELSE index' = i1 + 4
                /\ wt = 2 => IF ~LdInBounds
                             THEN status' = "err" /\ err' = ErrLengthDelimited
                             ELSE index' = LdStart + LdLen ]_vars

\* C7, as stated: whenever decode, on the buffer or on a payload in it,
\* reads a header of wire type StartGroup or EndGroup, decode of the buffer
\* returns the unsupported-wire-type error.
C7_GroupAnywhere ==
    (Finished /\ ((status = "err" /\ err \in GroupErrors) \/ data.err \in GroupErrors))
    => (status = "err" /\ err \in GroupErrors)

\* C7, amended: when the scan of the buffer itself reads a header of wire
\* type StartGroup or EndGroup, decode returns the unsupported-wire-type
\* error, whatever follows the header and whatever was decoded before it.
C7_GroupAtTopLevel ==
    [][ (AtHeader /\ WordHere % 8 \in {3, 4}) =>
            /\ status' = "err"
            /\ err' = (IF WordHere % 8 = 3 THEN ErrStartGroup ELSE ErrEndGroup) ]_vars

C7_Witness ==
    /\ status = "err"
    /\ err \in GroupErrors
    /\ message # <<>>
    /\ index < Len(buf)

\* C8: a header word splits into field_number = word >> 3 and wire_type =
\* word & 7; Header::decode fails when the word is negative as an i32 or
\* its low 3 bits are 6 or 7; no key of the mapping is negative.
C8_HeaderDecode ==
    [][ AtHeader =>
            /\ (WordHere < 0 \/ WordHere % 8 \in {6, 7})
                  => (status' = "err" /\ err' = ErrInvalidWireType)
            /\ status' = "run" => (WordHere \div 8) \in Keys(message')
            /\ \A k \in Keys(message') : k >= 0 ]_vars

\* The fields of a buffer in wire order: what each turn of the loop stores,
\* taken alone.
RECURSIVE WireFields(_, _)
WireFields(bs, idx) ==
    IF ~(idx < Len(bs)) THEN <<>>
    ELSE LET st == DecodeIter(bs, [DecodeEntry EXCEPT !.index = idx], decode)
         IN  IF st.status # "run" THEN <<>>
             ELSE <<st.message[1]>> \o WireFields(bs, st.index)

SameValue(a, b) == a.variant = b.variant /\ a.payload = b.payload

\* C9: in the mapping decode returns, keys are unique and ascending, and
\* each key holds the value of the last field in wire order that carries
\* that field number, whatever the wire types of the occurrences.
C9_LastFieldWins ==
    /\ \A i \in 1..(Len(message) - 1) : message[i].key < message[i + 1].key
    /\ status = "ok" =>
          LET wire == WireFields(buf, 0)
          IN  /\ Keys(message) = {wire[i].key : i \in 1..Len(wire)}
              /\ \A i \in 1..Len(wire) :
                    (\A j \in (i + 1)..Len(wire) : wire[j].key # wire[i].key)
                    => SameValue(Get(message, wire[i].key), wire[i].value)

C9_Witness ==
    /\ status = "ok"
    /\ Len(message) = 2
    /\ LET wire == WireFields(buf, 0)
       IN  /\ Len(wire) = 3
           /\ wire[1].key = wire[3].key
           /\ wire[1].key > wire[2].key
           /\ wire[1].value.variant # wire[3].value.variant
           /\ SameValue(Get(message, wire[3].key), wire[3].value)

\* C12: decode terminates on every finite buffer: each turn of the loop
\* either returns an error or strictly increases index, index never exceeds
\* the length of the buffer, Ok is returned only with index equal to that
\* length, and decode of the empty buffer returns Ok with the empty mapping.
C12_Terminates ==
    [][ /\ (status = "run" /\ index < Len(buf)) =>
              \/ status' = "err"
              \/ status' = "run" /\ index < index' /\ index' <= Len(buf)
        /\ (status = "run" /\ status' = "ok") =>
              index = Len(buf) /\ index' = Len(buf)
        /\ (status = "run" /\ buf = <<>>) =>
              status' = "ok" /\ message' = <<>>
      ]_vars

===========================================================================
